---- MODULE Spec2Model ----
(***************************************************************************)
(* Model of src/layout/main.py: random connectivity between adjacent       *)
(* layers of gates (get_rand_id_cons), the mapping of identity-keyed       *)
(* connections to positions under an arrangement (get_po_cons), the        *)
(* crossing counter (count_cross) and the sampling harness (get_distrib,   *)
(* print_test).                                                            *)
(*                                                                         *)
(* Python lists are sequences; Python indices are 0-based and sequence     *)
(* indices 1-based, gate identities and positions keep their 0-based       *)
(* values.  A connection (a, b) is the tuple <<a, b>>.                     *)
(***************************************************************************)
EXTENDS Integers, Sequences, FiniteSets

VARIABLES
    layers,        \* run configuration: gates in each layer
    connections,   \* run configuration: requested connections per gap
    rng,           \* state of the module-level generator of `random`
    cons,          \* count_cross: its argument
    pc,            \* count_cross: position in the function
    layer,         \* count_cross: index of the current layer_cons (0 before the loop)
    combo,         \* count_cross: index of the next pair of combinations(layer_cons, 2)
    cross_count,   \* count_cross: the running counter
    layer_base,    \* history: cross_count when the current layer_cons was entered
    layer_counts,  \* history: crossings added by each finished layer_cons
    prev_count,    \* history: value returned by the previous call (-1: none)
    call,          \* the last call of get_rand_id_cons and its outcome
    first,         \* history: the first call of get_rand_id_cons and its outcome
    dist,          \* get_distrib: its arguments, its position and the list built so far
    map            \* the last call of get_po_cons or print_test and its outcome

count_vars == <<cons, pc, layer, combo, cross_count, layer_base, layer_counts, prev_count>>
gen_vars == <<call, first, dist>>
vars == <<layers, connections, rng, count_vars, gen_vars, map>>

----------------------------------------------------------------------------
(* Bounds of the model *)

\* total number of gates over all layers of a configuration
MaxGates == 5
\* total number of gates of a configuration given to the generator or the mapper
MaxGenGates == 4
\* total number of connections of a connection set given as an input
MaxCons == 3
\* total number of connections of a connection set given to get_po_cons
MaxMapCons == 2
\* seeds passed to get_rand_id_cons by a caller are 0 .. MaxSeed
MaxSeed == 1
\* trial counts passed to get_distrib are 0 .. MaxSamples
MaxSamples == 2
\* number of states of the modelled pseudo-random generator
RngStates == 8

----------------------------------------------------------------------------
(* Input domains *)

RECURSIVE SumSeq(_)
SumSeq(s) == IF s = <<>> THEN 0 ELSE Head(s) + SumSeq(Tail(s))

SeqsUpTo(S, n) == UNION {[1..m -> S] : m \in 0..n}

\* layer-size sequences of at most g gates: at least two layers, every layer
\* holds a gate
LayerConfigsUpTo(g) ==
    UNION {{s \in [1..n -> 1..g] : SumSeq(s) <= g} : n \in 2..g}

LayerConfigs == LayerConfigsUpTo(MaxGates)

GenLayerConfigs == LayerConfigsUpTo(MaxGenGates)

\* product(range(i), range(j)) as a list, in itertools' order (first index major)
product(i, j) == [p \in 1..(i * j) |-> <<(p - 1) \div j, (p - 1) % j>>]

Image(s) == {s[x] : x \in DOMAIN s}

\* connection sets over the gaps k.. of ls holding at most budget connections
RECURSIVE ConsOver(_, _, _)
ConsOver(ls, k, budget) ==
    IF k >= Len(ls) THEN {<<>>}
    ELSE UNION {{<<g>> \o rest : rest \in ConsOver(ls, k + 1, budget - Len(g))} :
                g \in SeqsUpTo(Image(product(ls[k], ls[k + 1])), budget)}

ConnectionSets(ls) == ConsOver(ls, 1, MaxCons)

MapConnectionSets(ls) == ConsOver(ls, 1, MaxMapCons)

\* requested connection counts for the gaps k.. of ls: every count from 0 to
\* one more than the number of distinct pairs of the gap
RECURSIVE CountsOver(_, _)
CountsOver(ls, k) ==
    IF k >= Len(ls) THEN {<<>>}
    ELSE {<<c>> \o rest : c \in 0..(ls[k] * ls[k + 1] + 1), rest \in CountsOver(ls, k + 1)}

ConnectionCounts(ls) == CountsOver(ls, 1)

\* the permutations of the identities 0 .. n-1, as lists position -> identity
Perms(n) == {q \in [1..n -> 0..(n - 1)] : \A x, y \in 1..n : q[x] = q[y] => x = y}

\* lists that are no bijection over 0 .. n-1: a permutation with its last
\* identity omitted, with one more entry (a duplicate, or the out-of-range
\* identity n), or with its last entry overwritten
FaultyLists(n) ==
    UNION {{SubSeq(q, 1, n - 1)}
           \cup {Append(q, v) : v \in 0..n}
           \cup {[q EXCEPT ![n] = v] : v \in (0..n) \ {q[n]}} : q \in Perms(n)}

RECURSIVE ValidArrangements(_, _)
ValidArrangements(ls, k) ==
    IF k > Len(ls) THEN {<<>>}
    ELSE {<<q>> \o rest : q \in Perms(ls[k]), rest \in ValidArrangements(ls, k + 1)}

\* arrangements given to get_po_cons: every valid one, and every valid one with
\* the list of one layer replaced by a faulty list
Arrangements(ls) ==
    ValidArrangements(ls, 1)
    \cup UNION {{[a EXCEPT ![f] = q] : q \in FaultyLists(ls[f])} :
                a \in ValidArrangements(ls, 1), f \in 1..Len(ls)}

IsBijection(q, n) ==
    /\ Len(q) = n
    /\ \A v \in 0..(n - 1) : \E x \in DOMAIN q : q[x] = v

NoCall == [fn |-> "none"]
NoDist == [pc |-> "idle"]
NoMap == [fn |-> "none"]

----------------------------------------------------------------------------
(* count_cross *)

is_oppo_ties(a, b) == a >= 0 /\ b < 0

is_oppo(a, b) == a > 0 /\ b < 0

crossed_one_way(con1, con2) ==
    LET dx == con1[1] - con2[1]
        dy == con1[2] - con2[2]
    IN  is_oppo(dx, dy)

\* lines 56-58: whether the pair (con1, con2) is counted
crossed(con1, con2) ==
    LET dx == con1[1] - con2[1]
        dy == con1[2] - con2[2]
    IN  is_oppo(dx, dy) \/ is_oppo(dy, dx)

increment_twice(c) == IF c THEN 2 ELSE 0

\* line 59: 1 if crossed else 0
increment(c) == IF c THEN 1 ELSE 0

RECURSIVE combinations_from(_, _, _)
combinations_from(m, a, b) ==
    IF a >= m THEN <<>>
    ELSE IF b > m THEN combinations_from(m, a + 1, a + 2)
    ELSE <<<<a, b>>>> \o combinations_from(m, a, b + 1)

\* combinations(layer_cons, 2): the pairs of elements at positions a < b, in
\* lexicographic order of (a, b)
combinations(layer_cons) ==
    LET idx == combinations_from(Len(layer_cons), 1, 2)
    IN  [n \in DOMAIN idx |-> <<layer_cons[idx[n][1]], layer_cons[idx[n][2]]>>]

\* the function started on argument c
count_cross_enter(c, prev) ==
    /\ cons' = c
    /\ pc' = "for_layer"
    /\ layer' = 0
    /\ combo' = 0
    /\ cross_count' = 0
    /\ layer_base' = 0
    /\ layer_counts' = <<>>
    /\ prev_count' = prev

\* line 54: the outer loop takes the next layer_cons
count_cross_layer ==
    /\ pc = "for_layer"
    /\ layer < Len(cons)
    /\ layer' = layer + 1
    /\ combo' = 1
    /\ layer_base' = cross_count
    /\ pc' = "for_pair"
    /\ UNCHANGED <<cons, cross_count, layer_counts, prev_count>>
    /\ UNCHANGED <<layers, connections, rng, gen_vars, map>>

\* lines 55-59: one iteration of the inner loop
count_cross_pair ==
    /\ pc = "for_pair"
    /\ combo <= Len(combinations(cons[layer]))
    /\ LET pair == combinations(cons[layer])[combo]
       IN  cross_count' = cross_count + increment(crossed(pair[1], pair[2]))
    /\ combo' = combo + 1
    /\ UNCHANGED <<cons, pc, layer, layer_base, layer_counts, prev_count>>
    /\ UNCHANGED <<layers, connections, rng, gen_vars, map>>

\* line 55: combinations(layer_cons, 2) is exhausted
count_cross_layer_end ==
    /\ pc = "for_pair"
    /\ combo > Len(combinations(cons[layer]))
    /\ layer_counts' = Append(layer_counts, cross_count - layer_base)
    /\ pc' = "for_layer"
    /\ UNCHANGED <<cons, layer, combo, cross_count, layer_base, prev_count>>
    /\ UNCHANGED <<layers, connections, rng, gen_vars, map>>

\* line 60: return cross_count
count_cross_return ==
    /\ pc = "for_layer"
    /\ layer = Len(cons)
    /\ pc' = "done"
    /\ UNCHANGED <<cons, layer, combo, cross_count, layer_base, layer_counts, prev_count>>
    /\ UNCHANGED <<layers, connections, rng, gen_vars, map>>

\* the list s with its elements at positions p and p + 1 exchanged
SwapAt(s, p) == [x \in DOMAIN s |-> IF x = p THEN s[p + 1] ELSE IF x = p + 1 THEN s[p] ELSE s[x]]

\* a caller calls count_cross again, on the same connection set with two
\* neighbouring connections of one gap exchanged
count_cross_again ==
    /\ pc = "done"
    /\ \E k \in DOMAIN cons : \E p \in 1..(Len(cons[k]) - 1) :
          count_cross_enter([cons EXCEPT ![k] = SwapAt(cons[k], p)], cross_count)
    /\ UNCHANGED <<layers, connections, rng, gen_vars, map>>

\* count_cross as a function: the value the loop of lines 52-60 returns
RECURSIVE count_pairs(_, _, _)
count_pairs(pairs, n, count) ==
    IF n > Len(pairs) THEN count
    ELSE count_pairs(pairs, n + 1, count + increment(crossed(pairs[n][1], pairs[n][2])))

RECURSIVE count_layers(_, _, _)
count_layers(c, k, count) ==
    IF k > Len(c) THEN count
    ELSE count_layers(c, k + 1, count_pairs(combinations(c[k]), 1, count))

count_cross(c) == count_layers(c, 1, 0)

InitCount ==
    /\ layers \in LayerConfigs
    /\ connections = <<>>
    /\ rng = 0
    /\ cons \in ConnectionSets(layers)
    /\ pc = "for_layer"
    /\ layer = 0
    /\ combo = 0
    /\ cross_count = 0
    /\ layer_base = 0
    /\ layer_counts = <<>>
    /\ prev_count = -1
    /\ call = NoCall
    /\ first = NoCall
    /\ dist = NoDist
    /\ map = NoMap

NextCount ==
    \/ count_cross_layer
    \/ count_cross_pair
    \/ count_cross_layer_end
    \/ count_cross_return
    \/ count_cross_again

SpecCount == InitCount /\ [][NextCount]_vars

----------------------------------------------------------------------------
(* The module-level generator of `random` (lines 3-4).  The library's       *)
(* generator is a deterministic function of its state; it is modelled by a  *)
(* linear congruential generator over RngStates states.                     *)

\* the states of the generator; the interpreter starts it in any of them (it is
\* seeded from the system when `random` is imported)
Rng == 0..(RngStates - 1)

\* the state that follows a draw
random_next(s) == (5 * s + 3) % RngStates

\* int(random() * n) for the draw made in state s: random() is s / RngStates
random_below(s, n) == (s * n) \div RngStates

set_seed_ignored(seed, s) == s

set_seed_mixed(seed, s) == (3 * seed + 2 + s) % RngStates

\* set_seed(seed): the state becomes a function of the seed alone
set_seed(seed, s) == (3 * seed + 2) % RngStates

pool_update_none(pool, j, last) == pool

\* sample: pool[j] = pool[n-i-1], the drawn element leaves the pool
pool_update(pool, j, last) == [pool EXCEPT ![j] = pool[last]]

\* the selection loop of sample: the i-th draw takes pool[j], j = int(random() * (n-i))
RECURSIVE sample_loop(_, _, _, _, _, _)
sample_loop(pool, n, k, i, result, s) ==
    IF i >= k THEN [status |-> "ok", result |-> result, rng |-> s]
    ELSE LET j == random_below(s, n - i) + 1
         IN  sample_loop(pool_update(pool, j, n - i), n, k, i + 1,
                         Append(result, pool[j]), random_next(s))

sample_clamped(population, k, s) ==
    LET n == Len(population)
        m == IF k > n THEN n ELSE k
    IN  sample_loop(population, n, m, 0, <<>>, s)

\* sample(population, k) of the standard library, for populations of at most
\* 21 elements (the pool-based branch): ValueError unless 0 <= k <= n
sample(population, k, s) ==
    LET n == Len(population)
    IN  IF ~(0 <= k /\ k <= n)
        THEN [status |-> "ValueError", rng |-> s]
        ELSE sample_loop(population, n, k, 0, <<>>, s)

----------------------------------------------------------------------------
(* get_rand_id_cons *)

\* lines 75-79: the loop over the gaps, from gap `index` (1-based) on.  The
\* outcome records how many calls of sample had returned when the function
\* returned or raised; the outcome of a raised exception holds no value.
RECURSIVE rand_id_cons_loop(_, _, _, _, _)
rand_id_cons_loop(ls, cs, index, id_cons, s) ==
    IF index > Len(cs)
    THEN [status |-> "ok", id_cons |-> id_cons, sampled |-> Len(cs), rng |-> s]
    ELSE LET i == ls[index]
             j == ls[index + 1]
             all_cons == product(i, j)
             drawn == sample(all_cons, cs[index], s)
         IN  IF drawn.status # "ok"
             THEN [status |-> drawn.status, sampled |-> index - 1, rng |-> drawn.rng]
             ELSE rand_id_cons_loop(ls, cs, index + 1,
                                    [id_cons EXCEPT ![index] = drawn.result], drawn.rng)

\* get_rand_id_cons(layers, connections, seed) called when the generator is in
\* state s: its outcome and the state it leaves the generator in
get_rand_id_cons(ls, cs, seed, s) ==
    LET n == Len(ls)
        id_cons == [k \in 1..(n - 1) |-> "None"]
    IN  rand_id_cons_loop(ls, cs, 1, id_cons, set_seed(seed, s))

----------------------------------------------------------------------------
(* get_po_cons, rand_arrange *)

index_or_zero(q, x) ==
    IF \E p \in DOMAIN q : q[p] = x
    THEN (CHOOSE p \in DOMAIN q : q[p] = x /\ \A r \in DOMAIN q : q[r] = x => p <= r) - 1
    ELSE 0

\* list.index(x): the first position (0-based) holding x, -1 for ValueError
index(q, x) ==
    IF \E p \in DOMAIN q : q[p] = x
    THEN (CHOOSE p \in DOMAIN q : q[p] = x /\ \A r \in DOMAIN q : q[r] = x => p <= r) - 1
    ELSE -1

layer_of_id2_same(k) == k

\* line 90: id2 is looked up in arrangement[layer+1]
layer_of_id2(k) == k + 1

\* lines 88-91 for the layer_cons of gap k
po_layer_cons(layer_cons, arrangement, k) ==
    [n \in DOMAIN layer_cons |->
        <<index(arrangement[k], layer_cons[n][1]),
          index(arrangement[layer_of_id2(k)], layer_cons[n][2])>>]

\* get_po_cons(id_cons, arrangement): ValueError when some lookup fails
get_po_cons(id_cons, arrangement) ==
    LET po_cons == [k \in DOMAIN id_cons |-> po_layer_cons(id_cons[k], arrangement, k)]
    IN  IF \E k \in DOMAIN po_cons : \E n \in DOMAIN po_cons[k] :
               po_cons[k][n][1] = -1 \/ po_cons[k][n][2] = -1
        THEN [status |-> "ValueError"]
        ELSE [status |-> "ok", po_cons |-> po_cons]

\* range(x)
range(x) == [p \in 1..x |-> p - 1]

\* a strategy that reorders, passed as arrange_fun: every layer back to front
reverse_arrange(ls, id_cons) == [k \in DOMAIN ls |-> [p \in 1..ls[k] |-> ls[k] - p]]

rand_arrange_reversed(ls, id_cons) == [k \in DOMAIN ls |-> [p \in 1..ls[k] |-> ls[k] - p]]

\* rand_arrange(layers, id_cons)
rand_arrange(ls, id_cons) == [k \in DOMAIN ls |-> range(ls[k])]

\* the strategies passed as arrange_fun
ArrangeFuns == {"rand_arrange", "reverse_arrange"}

arrange(fun, ls, id_cons) ==
    IF fun = "rand_arrange" THEN rand_arrange(ls, id_cons) ELSE reverse_arrange(ls, id_cons)

----------------------------------------------------------------------------
(* get_distrib, print_test *)

\* get_sample(seed), lines 101-105, called when the generator is in state s
get_sample(ls, cs, fun, seed, s) ==
    LET g == get_rand_id_cons(ls, cs, seed, s)
    IN  IF g.status # "ok"
        THEN [status |-> g.status, rng |-> g.rng]
        ELSE LET arrangement == arrange(fun, ls, g.id_cons)
                 m == get_po_cons(g.id_cons, arrangement)
             IN  IF m.status # "ok"
                 THEN [status |-> m.status, rng |-> g.rng]
                 ELSE [status |-> "ok", value |-> count_cross(m.po_cons), rng |-> g.rng]

\* print_test(layers, connections), lines 110-116
print_test(ls, cs, s) ==
    LET arrangement == [k \in DOMAIN ls |-> range(ls[k])]
        g == get_rand_id_cons(ls, cs, 1, s)
    IN  IF g.status # "ok"
        THEN [fn |-> "print_test", connections |-> cs, status |-> g.status, rng |-> g.rng]
        ELSE LET m == get_po_cons(g.id_cons, arrangement)
             IN  IF m.status # "ok"
                 THEN [fn |-> "print_test", connections |-> cs, status |-> m.status,
                       rng |-> g.rng]
                 ELSE [fn |-> "print_test", connections |-> cs, status |-> "ok",
                       rng |-> g.rng, id_cons |-> g.id_cons, po_cons |-> m.po_cons,
                       crossed_id |-> count_cross(g.id_cons),
                       crossed_po |-> count_cross(m.po_cons)]

----------------------------------------------------------------------------
(* Calls of the generator and of the harness; the configuration (layers,   *)
(* connections) is fixed for a run and the single thread runs one function  *)
(* at a time.                                                               *)

\* a caller calls get_rand_id_cons(layers, connections, seed)
get_rand_id_cons_call ==
    /\ dist.pc # "sampling"
    /\ \E seed \in 0..MaxSeed :
          LET g == get_rand_id_cons(layers, connections, seed, rng)
              rec == [x \in ((DOMAIN g) \ {"rng"}) \cup {"fn", "seed", "again"} |->
                         CASE x = "fn" -> "get_rand_id_cons"
                           [] x = "seed" -> seed
                           [] x = "again" -> first # NoCall
                           [] OTHER -> g[x]]
          IN  /\ call' = rec
              /\ first' = IF first = NoCall THEN rec ELSE first
              /\ rng' = g.rng
    /\ dist' = NoDist
    /\ UNCHANGED <<layers, connections, count_vars, map>>

\* other code draws a number from the shared generator
other_draw ==
    /\ dist.pc # "sampling"
    /\ rng' = random_next(rng)
    /\ UNCHANGED <<layers, connections, count_vars, gen_vars, map>>

\* get_distrib(layers, connections, arrange_fun, samples) is entered
get_distrib ==
    /\ dist.pc # "sampling"
    /\ \E fun \in ArrangeFuns, samples \in 0..MaxSamples :
          dist' = [pc |-> "sampling", arrange_fun |-> fun, samples |-> samples,
                   out |-> <<>>]
    /\ call' = NoCall
    /\ UNCHANGED <<layers, connections, rng, count_vars, first, map>>

\* line 106: the next element of the list, get_sample(seed) for the next seed
\* of range(samples); an exception of get_sample leaves get_distrib
get_distrib_sample ==
    /\ dist.pc = "sampling"
    /\ Len(dist.out) < dist.samples
    /\ LET seed == Len(dist.out)
           r == get_sample(layers, connections, dist.arrange_fun, seed, rng)
       IN  /\ rng' = r.rng
           /\ dist' = IF r.status = "ok"
                      THEN [dist EXCEPT !.out = Append(@, r.value)]
                      ELSE [pc |-> "raised", arrange_fun |-> dist.arrange_fun,
                            samples |-> dist.samples]
    /\ UNCHANGED <<layers, connections, count_vars, call, first, map>>

\* line 106: the list is complete and returned
get_distrib_return ==
    /\ dist.pc = "sampling"
    /\ Len(dist.out) = dist.samples
    /\ dist' = [dist EXCEPT !.pc = "returned"]
    /\ UNCHANGED <<layers, connections, rng, count_vars, call, first, map>>

InitGen ==
    /\ layers \in GenLayerConfigs
    /\ connections \in ConnectionCounts(layers)
    /\ rng \in Rng
    /\ cons = <<>>
    /\ pc = "done"
    /\ layer = 0
    /\ combo = 0
    /\ cross_count = 0
    /\ layer_base = 0
    /\ layer_counts = <<>>
    /\ prev_count = -1
    /\ call = NoCall
    /\ first = NoCall
    /\ dist = NoDist
    /\ map = NoMap

NextGen ==
    \/ get_rand_id_cons_call
    \/ other_draw
    \/ get_distrib
    \/ get_distrib_sample
    \/ get_distrib_return

SpecGen == InitGen /\ [][NextGen]_vars

----------------------------------------------------------------------------
(* Calls of the mapper and of print_test.  Both are functions of their     *)
(* arguments (print_test also of the generator, which it seeds): a run      *)
(* starts with the arguments of one call and the action is the call.        *)

\* the arguments of a call of get_po_cons: any connection set over the layers,
\* with any arrangement of Arrangements (rand_arrange's is one of them)
get_po_cons_args ==
    \E arrangement \in Arrangements(layers) : \E id_cons \in MapConnectionSets(layers) :
        map = [fn |-> "get_po_cons", state |-> "called", id_cons |-> id_cons,
               arrangement |-> arrangement]

\* the arguments of a call of print_test
print_test_args ==
    \E cs \in ConnectionCounts(layers) :
        map = [fn |-> "print_test", state |-> "called", connections |-> cs]

\* get_po_cons(id_cons, arrangement) runs
get_po_cons_call ==
    /\ map.fn = "get_po_cons"
    /\ map.state = "called"
    /\ LET m == get_po_cons(map.id_cons, map.arrangement)
       IN  map' = [x \in (DOMAIN map) \cup (DOMAIN m) |->
                      IF x = "state" THEN "left"
                      ELSE IF x \in DOMAIN m THEN m[x] ELSE map[x]]
    /\ UNCHANGED <<layers, connections, rng, count_vars, gen_vars>>

\* print_test(layers, connections) runs
print_test_call ==
    /\ map.fn = "print_test"
    /\ map.state = "called"
    /\ LET r == print_test(layers, map.connections, rng)
       IN  /\ map' = [x \in ((DOMAIN r) \ {"rng"}) \cup {"state"} |->
                         IF x = "state" THEN "left" ELSE r[x]]
           /\ rng' = r.rng
    /\ UNCHANGED <<layers, connections, count_vars, gen_vars>>

InitMap ==
    /\ layers \in GenLayerConfigs
    /\ connections = <<>>
    /\ rng \in {0, RngStates - 1}
    /\ cons = <<>>
    /\ pc = "done"
    /\ layer = 0
    /\ combo = 0
    /\ cross_count = 0
    /\ layer_base = 0
    /\ layer_counts = <<>>
    /\ prev_count = -1
    /\ call = NoCall
    /\ first = NoCall
    /\ dist = NoDist
    /\ (get_po_cons_args \/ print_test_args)

NextMap ==
    \/ get_po_cons_call
    \/ print_test_call

SpecMap == InitMap /\ [][NextMap]_vars

----------------------------------------------------------------------------
(* Properties of count_cross, under SpecCount *)

Choose2(m) == (m * (m - 1)) \div 2

\* the pairs of positions a < b of gap k whose connections have dx and dy of
\* strictly opposite, non-zero signs
OppositePairs(c) ==
    {t \in UNION {{<<k, a, b>> : a \in DOMAIN c[k], b \in DOMAIN c[k]} : k \in DOMAIN c} :
        /\ t[2] < t[3]
        /\ LET dx == c[t[1]][t[2]][1] - c[t[1]][t[3]][1]
               dy == c[t[1]][t[2]][2] - c[t[1]][t[3]][2]
           IN  (dx > 0 /\ dy < 0) \/ (dy > 0 /\ dx < 0)}

\* C1: count_cross returns the number of unordered pairs of connections of the
\* same gap whose dx and dy have strictly opposite non-zero signs, summed over
\* the gaps: a pair with dx = 0 or dy = 0 is not counted and connections of
\* different gaps are not compared; [[(0,1),(1,0)]] gives 1, [[(0,0),(1,1)]] 0.
C1_CountCrossValue ==
    pc = "done" =>
        /\ cross_count = Cardinality(OppositePairs(cons))
        /\ cons = << << <<0, 1>>, <<1, 0>> >> >> => cross_count = 1
        /\ cons = << << <<0, 0>>, <<1, 1>> >> >> => cross_count = 0

\* a finished count over two gaps: one counted pair, and a connection of the
\* other gap that would cross one of the first gap if the two were compared
C1_Witness ==
    /\ pc = "done"
    /\ Len(cons) >= 2
    /\ cross_count = 1
    /\ \E a \in DOMAIN cons[1], b \in DOMAIN cons[2] :
          (cons[1][a][1] - cons[2][b][1]) * (cons[1][a][2] - cons[2][b][2]) < 0

C9_StateBounds ==
    /\ pc = "for_pair" =>
          /\ 0 <= cross_count - layer_base
          /\ cross_count - layer_base <= Choose2(Len(cons[layer]))
    /\ \A k \in DOMAIN layer_counts :
          /\ 0 <= layer_counts[k]
          /\ layer_counts[k] <= Choose2(Len(cons[k]))
    /\ 0 <= cross_count
    /\ cross_count <= SumSeq([k \in DOMAIN cons |-> Choose2(Len(cons[k]))])
    /\ pc = "done" =>
          /\ Len(layer_counts) = Len(cons)
          /\ cross_count = SumSeq(layer_counts)

\* C9: the crossings count_cross attributes to a gap of m connections lie in
\* 0 .. m*(m-1)/2, the total lies in 0 .. the sum of m*(m-1)/2 over the gaps,
\* and the running counter never decreases while the function runs.
C9_CountCrossBounds ==
    /\ []C9_StateBounds
    /\ [][pc # "done" => cross_count' >= cross_count]_vars

\* a finished count over two gaps in which a gap of two connections reached
\* its upper bound of one crossing
C9_Witness ==
    /\ pc = "done"
    /\ Len(cons) >= 2
    /\ \E k \in DOMAIN cons : Len(cons[k]) = 2 /\ layer_counts[k] = 1

\* C10: the crossing predicate is symmetric in its two connections, and
\* count_cross returns the same total after the connections of a gap are
\* reordered.
C10_CrossedSymmetric ==
    /\ \A k \in DOMAIN cons : \A a, b \in DOMAIN cons[k] :
          crossed(cons[k][a], cons[k][b]) = crossed(cons[k][b], cons[k][a])
    /\ (pc = "done" /\ prev_count >= 0) => cross_count = prev_count

\* a second count, finished, of a reordered gap of three distinct connections
\* with at least one crossing
C10_Witness ==
    /\ pc = "done"
    /\ prev_count >= 1
    /\ \E k \in DOMAIN cons :
          Len(cons[k]) = 3 /\ Cardinality(Image(cons[k])) = 3

----------------------------------------------------------------------------
(* Properties of get_rand_id_cons and get_distrib, under SpecGen *)

\* every requested count is at most the number of distinct pairs of its gap
ValidCounts(ls, cs) == \A k \in DOMAIN cs : cs[k] <= ls[k] * ls[k + 1]

\* C2: when every requested count ck is at most sk * s(k+1), get_rand_id_cons
\* returns for each gap k exactly ck connections, pairwise distinct, each a
\* pair (a, b) with 0 <= a < sk and 0 <= b < s(k+1).
C2_DistinctInRange ==
    (call.fn = "get_rand_id_cons" /\ ValidCounts(layers, connections)) =>
        /\ call.status = "ok"
        /\ Len(call.id_cons) = Len(layers) - 1
        /\ \A k \in DOMAIN call.id_cons :
              /\ Len(call.id_cons[k]) = connections[k]
              /\ \A n, m \in DOMAIN call.id_cons[k] :
                    call.id_cons[k][n] = call.id_cons[k][m] => n = m
              /\ \A n \in DOMAIN call.id_cons[k] :
                    /\ call.id_cons[k][n][1] \in 0..(layers[k] - 1)
                    /\ call.id_cons[k][n][2] \in 0..(layers[k + 1] - 1)

\* a call that drew every pair of a gap of at least three pairs
C2_Witness ==
    /\ call.fn = "get_rand_id_cons"
    /\ call.status = "ok"
    /\ \E k \in DOMAIN connections :
          connections[k] = layers[k] * layers[k + 1] /\ connections[k] >= 3

\* the first gap whose requested count exceeds its number of distinct pairs
FirstInvalidGap(ls, cs) ==
    CHOOSE k \in DOMAIN cs :
        /\ cs[k] > ls[k] * ls[k + 1]
        /\ \A m \in 1..(k - 1) : cs[m] <= ls[m] * ls[m + 1]

\* C3 as stated: a count above the number of distinct pairs makes the call
\* fail before sample has been called for any gap, and no set is returned.
C3_FailsBeforeSampling ==
    (call.fn = "get_rand_id_cons" /\ ~ValidCounts(layers, connections)) =>
        /\ call.status # "ok"
        /\ "id_cons" \notin DOMAIN call
        /\ call.sampled = 0

\* C3 amended: a count above the number of distinct pairs makes the call fail
\* with the sampler's ValueError and return no set; the error is raised when
\* the loop reaches the first such gap, after every gap before it was sampled.
C3_FailsAtFirstInvalidGap ==
    (call.fn = "get_rand_id_cons" /\ ~ValidCounts(layers, connections)) =>
        /\ call.status = "ValueError"
        /\ "id_cons" \notin DOMAIN call
        /\ call.sampled = FirstInvalidGap(layers, connections) - 1

\* a failed call whose first gap was sampled, with at least one connection
\* drawn, before the error of a later gap
C3_Witness ==
    /\ call.fn = "get_rand_id_cons"
    /\ call.status = "ValueError"
    /\ call.sampled >= 1
    /\ connections[1] >= 1

\* the crossing count of trial `seed` computed on its own, the generator being
\* in state s when the trial starts
IsolatedTrial(fun, seed, s) ==
    LET c == get_rand_id_cons(layers, connections, seed, s).id_cons
    IN  count_cross(get_po_cons(c, arrange(fun, layers, c)).po_cons)

\* C7: get_distrib returns exactly `samples` crossing counts for a valid
\* configuration, and its i-th entry is the count of trial i computed on its
\* own, whatever state the calls and trials before it left the generator in.
C7_TrialsIndependent ==
    /\ dist.pc \in {"sampling", "returned"} =>
          \A n \in DOMAIN dist.out : \A s \in Rng :
              dist.out[n] = IsolatedTrial(dist.arrange_fun, n - 1, s)
    /\ dist.pc = "returned" => Len(dist.out) = dist.samples
    /\ ValidCounts(layers, connections) => dist.pc # "raised"

\* a returned distribution of two trials whose seeds gave different counts
C7_Witness ==
    /\ dist.pc = "returned"
    /\ dist.samples >= 2
    /\ dist.out[1] # dist.out[2]

\* C8: a call of get_rand_id_cons with the configuration and seed of an
\* earlier call returns the identical connection set, whatever calls with
\* other seeds, runs of get_distrib and other draws happened in between.
C8_SameSeedSameSet ==
    (call.fn = "get_rand_id_cons" /\ first.fn = "get_rand_id_cons"
        /\ call.seed = first.seed) =>
        /\ call.status = first.status
        /\ call.status = "ok" => call.id_cons = first.id_cons

\* a later call with the first call's seed that returned a set with a gap of
\* at least two connections
C8_Witness ==
    /\ call.fn = "get_rand_id_cons"
    /\ call.again
    /\ call.seed = first.seed
    /\ call.status = "ok"
    /\ \E k \in DOMAIN call.id_cons : Len(call.id_cons[k]) >= 2

----------------------------------------------------------------------------
(* Properties of get_po_cons, rand_arrange and print_test, under SpecMap *)

ValidArrangement(arrangement) ==
    /\ Len(arrangement) = Len(layers)
    /\ \A k \in DOMAIN layers : IsBijection(arrangement[k], layers[k])

\* some connection names an identity that the list of its layer does not hold
ReferencesAbsentIdentity(id_cons, arrangement) ==
    \E k \in DOMAIN id_cons : \E n \in DOMAIN id_cons[k] :
        \/ id_cons[k][n][1] \notin Image(arrangement[k])
        \/ id_cons[k][n][2] \notin Image(arrangement[k + 1])

\* C4 as stated: get_po_cons fails, returning no set, whenever the list of some
\* layer is no bijection over the layer's identities.
C4_RejectsNonBijection ==
    (map.fn = "get_po_cons" /\ map.state = "left"
        /\ ~ValidArrangement(map.arrangement)) =>
        /\ map.status # "ok"
        /\ "po_cons" \notin DOMAIN map

\* p (0-based) is the first position of the list q that holds x
FirstPosition(q, x, p) ==
    /\ p + 1 \in DOMAIN q
    /\ q[p + 1] = x
    /\ \A r \in 1..p : q[r] # x

\* C4 amended: given one list per layer, get_po_cons fails (the ValueError of
\* list.index), returning no set, exactly when some connection names an
\* identity that does not appear in the list of its layer; otherwise, also
\* when a list is no bijection, it returns the set in which every identity is
\* replaced by the first position that holds it.
C4_FailsOnAbsentReferencedIdentity ==
    (map.fn = "get_po_cons" /\ map.state = "left") =>
        /\ map.status = "ValueError" <=>
              ReferencesAbsentIdentity(map.id_cons, map.arrangement)
        /\ map.status = "ValueError" => "po_cons" \notin DOMAIN map
        /\ map.status # "ValueError" =>
              /\ map.status = "ok"
              /\ \A k \in DOMAIN map.id_cons : \A n \in DOMAIN map.id_cons[k] :
                    /\ FirstPosition(map.arrangement[k], map.id_cons[k][n][1],
                                     map.po_cons[k][n][1])
                    /\ FirstPosition(map.arrangement[k + 1], map.id_cons[k][n][2],
                                     map.po_cons[k][n][2])

\* a failed call: a connection names an identity its layer's list omits
C4_Witness ==
    /\ map.fn = "get_po_cons"
    /\ map.state = "left"
    /\ map.status = "ValueError"
    /\ ~ValidArrangement(map.arrangement)

\* C5: for a valid arrangement get_po_cons returns a set with the gaps and
\* the number of connections per gap of its argument, whose n-th connection of
\* gap k is (p, q) with arrangement[k][p] = id_a and arrangement[k+1][q] = id_b
\* for the n-th connection (id_a, id_b) of gap k of the argument.
C5_PositionsOfIdentities ==
    (map.fn = "get_po_cons" /\ map.state = "left"
        /\ ValidArrangement(map.arrangement)) =>
        /\ map.status = "ok"
        /\ Len(map.po_cons) = Len(map.id_cons)
        /\ \A k \in DOMAIN map.id_cons :
              /\ Len(map.po_cons[k]) = Len(map.id_cons[k])
              /\ \A n \in DOMAIN map.id_cons[k] :
                    LET p == map.po_cons[k][n][1]
                        q == map.po_cons[k][n][2]
                    IN  /\ p \in 0..(layers[k] - 1)
                        /\ q \in 0..(layers[k + 1] - 1)
                        /\ map.arrangement[k][p + 1] = map.id_cons[k][n][1]
                        /\ map.arrangement[k + 1][q + 1] = map.id_cons[k][n][2]

\* a returned mapping of two non-empty gaps that moved a connection
C5_Witness ==
    /\ map.fn = "get_po_cons"
    /\ map.state = "left"
    /\ ValidArrangement(map.arrangement)
    /\ Len(map.id_cons) >= 2
    /\ \A k \in DOMAIN map.id_cons : Len(map.id_cons[k]) >= 1
    /\ map.po_cons # map.id_cons

\* C6: rand_arrange returns the list [0, ..., size-1] for every layer; a set
\* mapped through that arrangement equals the original pair by pair and in
\* order, so its crossing count is the original's; the two counts print_test
\* reports are equal.
C6_IdentityMapping ==
    /\ \A k \in DOMAIN layers : \A p \in 1..layers[k] :
          rand_arrange(layers, <<>>)[k][p] = p - 1
    /\ (map.fn = "get_po_cons" /\ map.state = "left"
          /\ map.arrangement = rand_arrange(layers, map.id_cons)) =>
          /\ map.status = "ok"
          /\ map.po_cons = map.id_cons
          /\ count_cross(map.po_cons) = count_cross(map.id_cons)
    /\ (map.fn = "print_test" /\ map.state = "left" /\ map.status = "ok") =>
          /\ map.po_cons = map.id_cons
          /\ map.crossed_po = map.crossed_id

\* a set with a crossing mapped through the arrangement of rand_arrange
C6_Witness ==
    /\ map.fn = "get_po_cons"
    /\ map.state = "left"
    /\ map.arrangement = rand_arrange(layers, map.id_cons)
    /\ map.status = "ok"
    /\ count_cross(map.id_cons) >= 1

====
